---- MODULE Spec2Model ----
(***************************************************************************)
(* Model of the version-resolution engine of ocp-doc-checker:              *)
(*   pkg/parser  (ParseOCPDocURL, BuildURL, GetVersionFloat)               *)
(*   pkg/checker (Checker.Check, checkURL, checkAnchorInHTML,              *)
(*                getNewerVersions, parseVersionInPlace)                   *)
(* Strings are TLA+ strings; positions are 1-based and 0 means "absent"    *)
(* (Go: 0-based and -1).                                                   *)
(***************************************************************************)
EXTENDS Integers, Sequences, FiniteSets, TLC

(***************************************************************************)
(* Bounds of the model.                                                    *)
(***************************************************************************)
\* longest known-version list handed to SetVersions
MaxKnown == 2

\* largest major number of the pairs the ordering key is compared on
MaxMajor == 5

(***************************************************************************)
(* String helpers (Go: strings.Index, strings.Contains, slicing).          *)
(***************************************************************************)
Char(s, i) == SubSeq(s, i, i)

Digits == {"0", "1", "2", "3", "4", "5", "6", "7", "8", "9"}

DigitVal(c) ==
  CASE c = "0" -> 0 [] c = "1" -> 1 [] c = "2" -> 2 [] c = "3" -> 3
    [] c = "4" -> 4 [] c = "5" -> 5 [] c = "6" -> 6 [] c = "7" -> 7
    [] c = "8" -> 8 [] c = "9" -> 9

HasPrefixAt(s, i, p) ==
  /\ i >= 1
  /\ i + Len(p) - 1 <= Len(s)
  /\ SubSeq(s, i, i + Len(p) - 1) = p

\* least element of a non-empty set of positions
Min(S) == CHOOSE i \in S : \A j \in S : i <= j

\* least element of a set of positions, 0 for the empty set
MinOrZero(S) == IF S = {} THEN 0 ELSE Min(S)

\* strings.Index: position of the first occurrence of sub in s, 0 if none
Index(s, sub) == MinOrZero({ i \in 1..Len(s) : HasPrefixAt(s, i, sub) })

Contains(s, sub) == Index(s, sub) # 0

\* s[i:] in 1-based positions
From(s, i) == SubSeq(s, i, Len(s))

\* first position j >= i whose character is in stop, Len(s)+1 if none
RunEnd(s, i, stop) ==
  Min({ j \in i..Len(s) : Char(s, j) \in stop } \cup {Len(s) + 1})

\* first position j >= i whose character is not in keep, Len(s)+1 if none
SpanEnd(s, i, keep) ==
  Min({ j \in i..Len(s) : Char(s, j) \notin keep } \cup {Len(s) + 1})

\* decimal value of the digits s[i..j-1] (strconv.Atoi, fmt's %d)
RECURSIVE DecVal(_, _, _)
DecVal(s, i, j) ==
  IF j <= i THEN 0
  ELSE 10 * DecVal(s, i, j - 1) + DigitVal(Char(s, j - 1))

\* strconv.ParseInt with bitSize 64 (behind strconv.Atoi and fmt's %d): the
\* digits s[i..j-1] are out of range when, leading zeros apart, they are
\* more than the 19 digits of the limit or 19 digits above it
MaxInt64Digits == "9223372036854775807"
MinInt64Digits == "9223372036854775808"
DigitsAbove(x, y) ==
  \E k \in 1..Len(x) :
    /\ SubSeq(x, 1, k - 1) = SubSeq(y, 1, k - 1)
    /\ DigitVal(Char(x, k)) > DigitVal(Char(y, k))
OutOfRangeFrom(s, nz, j, limit) ==
  \/ j - nz > Len(limit)
  \/ j - nz = Len(limit) /\ DigitsAbove(SubSeq(s, nz, j - 1), limit)
OutOfRange(s, i, j, limit) == OutOfRangeFrom(s, SpanEnd(s, i, {"0"}), j, limit)

\* the value strconv.Atoi hands back with its range error: 1<<63 - 1, which
\* stands here as the largest integer of the model
AtoiClamp == 2147483647

\* strconv.Atoi of the digits s[i..j-1], its error dropped
Atoi(s, i, j) ==
  IF OutOfRange(s, i, j, MaxInt64Digits) THEN AtoiClamp ELSE DecVal(s, i, j)

(***************************************************************************)
(* pkg/parser                                                              *)
(***************************************************************************)
DocsHost == "docs.redhat.com"
PathLiteral == "/documentation/openshift_container_platform/"
BuildPrefix == "/en/documentation/openshift_container_platform/"

\* strings.Cut at position k of a separator of length n (k = 0: not found)
Before(s, k) == IF k = 0 THEN s ELSE SubSeq(s, 1, k - 1)
After(s, k, n) == IF k = 0 THEN "" ELSE From(s, k + n)

\* strings.LastIndex: position of the last occurrence of sub in s, 0 if none
LastIndex(s, sub) ==
  LET at == { i \in 1..Len(s) : HasPrefixAt(s, i, sub) }
  IN  IF at = {} THEN 0 ELSE CHOOSE i \in at : \A j \in at : j <= i

UpperLetters == "ABCDEFGHIJKLMNOPQRSTUVWXYZ"
LowerLetters == "abcdefghijklmnopqrstuvwxyz"
Letters == { Char(UpperLetters, i) : i \in 1..26 } \cup { Char(LowerLetters, i) : i \in 1..26 }

\* strings.ToLower on ASCII text
LowerChar(c) ==
  IF Index(UpperLetters, c) # 0 THEN Char(LowerLetters, Index(UpperLetters, c)) ELSE c

RECURSIVE ToLower(_)
ToLower(s) == IF s = "" THEN "" ELSE LowerChar(Char(s, 1)) \o ToLower(From(s, 2))

HexDigits == Digits \cup {"a", "b", "c", "d", "e", "f", "A", "B", "C", "D", "E", "F"}

\* net/url unescape: every '%' is followed by two hexadecimal digits
ValidEscapes(s) ==
  \A i \in 1..Len(s) :
    Char(s, i) = "%" =>
      /\ i + 2 <= Len(s)
      /\ Char(s, i + 1) \in HexDigits
      /\ Char(s, i + 2) \in HexDigits

\* the byte written %XX, for the escapes that occur in the URLs of the model;
\* any other escape is left as it is written
HexByte(h) ==
  CASE h = "20" -> " "
    [] h = "23" -> "#"
    [] h = "25" -> "%"
    [] h \in {"2F", "2f"} -> "/"
    [] h \in {"3F", "3f"} -> "?"
    [] OTHER -> "%" \o h

\* net/url unescape of a path or a fragment with valid escapes
RECURSIVE Unescape(_)
Unescape(s) ==
  IF Index(s, "%") = 0 THEN s
  ELSE SubSeq(s, 1, Index(s, "%") - 1)
         \o HexByte(SubSeq(s, Index(s, "%") + 1, Index(s, "%") + 2))
         \o Unescape(From(s, Index(s, "%") + 3))

UrlError(e) == [err |-> e, Scheme |-> "", Host |-> "", Path |-> "", Fragment |-> ""]

\* net/url.Parse: setPath and setFragment decode the escapes of path and
\* fragment and fail on an invalid one
UrlFinish(scheme, host, rawPath, frag) ==
  IF ~ValidEscapes(rawPath) \/ ~ValidEscapes(frag)
  THEN UrlError("invalid URL escape")
  ELSE [err |-> "nil", Scheme |-> scheme, Host |-> host,
        Path |-> Unescape(rawPath), Fragment |-> Unescape(frag)]

\* net/url parseAuthority: the host is what follows the last '@'
HostOf(authority) == From(authority, LastIndex(authority, "@") + 1)

\* net/url.Parse: authority and path of the text after "//"
UrlHostPath(scheme, auth, frag) ==
  UrlFinish(scheme,
            HostOf(Before(auth, Index(auth, "/"))),
            IF Index(auth, "/") = 0 THEN "" ELSE From(auth, Index(auth, "/")),
            frag)

\* net/url.Parse after the scheme and the query are cut off: an opaque URL,
\* a URL with an authority ("//" host), or a path alone
UrlAuthority(scheme, rest, frag) ==
  IF ~HasPrefixAt(rest, 1, "/")
  THEN IF scheme # "" THEN UrlFinish(scheme, "", "", frag)
       ELSE UrlFinish(scheme, "", rest, frag)
  ELSE IF HasPrefixAt(rest, 1, "//")
          /\ (scheme # "" \/ ~HasPrefixAt(rest, 1, "///"))
  THEN UrlHostPath(scheme, From(rest, 3), frag)
  ELSE UrlFinish(scheme, "", rest, frag)

SchemeChars == Letters \cup Digits \cup {"+", "-", "."}

\* net/url getScheme; e is the first position whose character cannot be part
\* of a scheme
SchemeAt(u, e) ==
  IF e <= Len(u) /\ Char(u, e) = ":"
  THEN IF e = 1
       THEN [err |-> "missing protocol scheme", scheme |-> "", rest |-> u]
       ELSE IF Char(u, 1) \in Letters
       THEN [err |-> "nil", scheme |-> SubSeq(u, 1, e - 1), rest |-> From(u, e + 1)]
       ELSE [err |-> "nil", scheme |-> "", rest |-> u]
  ELSE [err |-> "nil", scheme |-> "", rest |-> u]

getScheme(u) == SchemeAt(u, SpanEnd(u, 1, SchemeChars))

\* net/url.Parse: the scheme is lower-cased, the query is cut at the first '?'
UrlRest(gs, frag) ==
  IF gs.err # "nil"
  THEN UrlError(gs.err)
  ELSE UrlAuthority(ToLower(gs.scheme), Before(gs.rest, Index(gs.rest, "?")), frag)

\* net/url.Parse: the fragment is cut at the first '#', then scheme, query,
\* authority and path.  Not modelled: control characters, ports and IPv6
\* literals, escapes in the host, and the rejection of a colon in the first
\* segment of a relative path; none of the URLs of the model has them.
UrlParse(rawURL) ==
  UrlRest(getScheme(Before(rawURL, Index(rawURL, "#"))),
          After(rawURL, Index(rawURL, "#"), 1))

\* pathRegex, the groups after the version: ([^/]+)/([^/]+)/([^/?\#]+);
\* v0..d2-1 is the version, f1, g1, h1 end format, document and page
RegexPage(p, i, v0, d2, f1, g1, h1) ==
  IF h1 > g1 + 1
  THEN <<SubSeq(p, i, h1 - 1),
         SubSeq(p, v0, d2 - 1),
         SubSeq(p, d2 + 1, f1 - 1),
         SubSeq(p, f1 + 1, g1 - 1),
         SubSeq(p, g1 + 1, h1 - 1)>>
  ELSE <<>>

RegexDocument(p, i, v0, d2, f1, g1) ==
  IF g1 > f1 + 1 /\ g1 <= Len(p)
  THEN RegexPage(p, i, v0, d2, f1, g1, RunEnd(p, g1 + 1, {"/", "?", "#"}))
  ELSE <<>>

RegexFormat(p, i, v0, d2, f1) ==
  IF f1 > d2 + 1 /\ f1 <= Len(p)
  THEN RegexDocument(p, i, v0, d2, f1, RunEnd(p, f1 + 1, {"/"}))
  ELSE <<>>

\* pathRegex, the version group (\d+\.\d+) and the '/' behind it
RegexMinor(p, i, v0, d1, d2) ==
  IF d2 > d1 + 1 /\ d2 <= Len(p) /\ Char(p, d2) = "/"
  THEN RegexFormat(p, i, v0, d2, RunEnd(p, d2 + 1, {"/"}))
  ELSE <<>>

RegexMajor(p, i, v0, d1) ==
  IF d1 > v0 /\ d1 <= Len(p) /\ Char(p, d1) = "."
  THEN RegexMinor(p, i, v0, d1, SpanEnd(p, d1 + 1, Digits))
  ELSE <<>>

\* one attempt of pathRegex at position i of path p:
\* /documentation/openshift_container_platform/(\d+\.\d+)/([^/]+)/([^/]+)/([^/?\#]+)
RegexAt(p, i) ==
  IF HasPrefixAt(p, i, PathLiteral)
  THEN RegexMajor(p, i, i + Len(PathLiteral),
                  SpanEnd(p, i + Len(PathLiteral), Digits))
  ELSE <<>>

\* pathRegex.FindStringSubmatch: the leftmost match, <<>> if none
FirstMatch(p, at) == IF at = {} THEN <<>> ELSE RegexAt(p, Min(at))

FindStringSubmatch(p) ==
  FirstMatch(p, { i \in 1..Len(p) : RegexAt(p, i) # <<>> })

NoDoc ==
  [BaseURL |-> "", Version |-> "", MajorMinor |-> <<0, 0>>, Format |-> "",
   Document |-> "", Page |-> "", Anchor |-> "", OriginalURL |-> ""]

\* ParseOCPDocURL: strings.Split(version, ".") and strconv.Atoi of the parts
SplitVersion(version, dot) ==
  <<Atoi(version, 1, dot), Atoi(version, dot + 1, Len(version) + 1)>>

\* ParseOCPDocURL after the match of pathRegex
ParsePath(rawURL, parsedURL, matches) ==
  IF Len(matches) < 5
  THEN [err |-> "URL does not match expected OCP documentation format",
        doc |-> NoDoc]
  ELSE [err |-> "nil",
        doc |-> [BaseURL     |-> parsedURL.Scheme \o "://" \o parsedURL.Host,
                 Version     |-> matches[2],
                 MajorMinor  |-> SplitVersion(matches[2], Index(matches[2], ".")),
                 Format      |-> matches[3],
                 Document    |-> matches[4],
                 Page        |-> matches[5],
                 Anchor      |-> parsedURL.Fragment,
                 OriginalURL |-> rawURL]]

\* ParseOCPDocURL after url.Parse
ParseHost(rawURL, parsedURL) ==
  IF parsedURL.err # "nil"
  THEN [err |-> "invalid URL: " \o parsedURL.err, doc |-> NoDoc]
  ELSE IF ~Contains(parsedURL.Host, DocsHost)
  THEN [err |-> "not a Red Hat documentation URL", doc |-> NoDoc]
  ELSE ParsePath(rawURL, parsedURL, FindStringSubmatch(parsedURL.Path))

\* ParseOCPDocURL: [err, doc]; err = "nil" on success
ParseOCPDocURL(rawURL) == ParseHost(rawURL, UrlParse(rawURL))

\* faulty variant: the URL is built at the version of the reference
BuildURL_OwnVersion(o, version) ==
  LET url == o.BaseURL \o BuildPrefix \o o.Version \o "/" \o o.Format
               \o "/" \o o.Document \o "/" \o o.Page
  IN  IF o.Anchor # "" THEN url \o "#" \o o.Anchor ELSE url

\* OCPDocURL.BuildURL
BuildURL(o, version) ==
  LET url == o.BaseURL \o BuildPrefix \o version \o "/" \o o.Format
               \o "/" \o o.Document \o "/" \o o.Page
  IN  IF o.Anchor # "" THEN url \o "#" \o o.Anchor ELSE url

\* faulty variant: the minor is taken for tenths
GetVersionFloat_Tenths(mm) == 10 * mm[1] + mm[2]

\* OCPDocURL.GetVersionFloat: float64(major) + float64(minor)/100.0.
\* The model carries the key scaled by 100 (100*major + minor), an integer;
\* float64 compares these keys exactly like the scaled integers for all
\* majors and minors below 2^20.
GetVersionFloat(mm) == 100 * mm[1] + mm[2]

(***************************************************************************)
(* pkg/checker: version enumeration                                        *)
(***************************************************************************)
\* fmt's %d: skip blanks, optional sign, at least one digit, and a value
\* that fits an int
ScanValue(s, b, e, neg) ==
  IF OutOfRange(s, b, e, IF neg THEN MinInt64Digits ELSE MaxInt64Digits)
  THEN [ok |-> FALSE, val |-> 0, next |-> e]
  ELSE [ok   |-> e > b,
        val  |-> IF neg THEN 0 - DecVal(s, b, e) ELSE DecVal(s, b, e),
        next |-> e]

ScanDigits(s, b, neg) == ScanValue(s, b, SpanEnd(s, b, Digits), neg)

ScanSign(s, a) ==
  IF a <= Len(s) /\ Char(s, a) \in {"+", "-"}
  THEN ScanDigits(s, a + 1, Char(s, a) = "-")
  ELSE ScanDigits(s, a, FALSE)

ScanInt(s, i) == ScanSign(s, SpanEnd(s, i, {" "}))

ScanError == [err |-> "scan error", MajorMinor |-> <<0, 0>>]

ScanMinor(ma, mi) ==
  IF mi.ok THEN [err |-> "nil", MajorMinor |-> <<ma.val, mi.val>>] ELSE ScanError

ScanDot(version, ma) ==
  IF ma.ok /\ ma.next <= Len(version) /\ Char(version, ma.next) = "."
  THEN ScanMinor(ma, ScanInt(version, ma.next + 1))
  ELSE ScanError

\* parseVersionInPlace: fmt.Sscanf(doc.Version, "%d.%d", &major, &minor);
\* input after the second integer is not looked at.
parseVersionInPlace(version) == ScanDot(version, ScanInt(version, 1))

\* key used by getNewerVersions for a version string
VersionKey(v) == GetVersionFloat(parseVersionInPlace(v).MajorMinor)

\* the comparison passed to sort.Slice
SortLess(a, b) == VersionKey(a) < VersionKey(b)

\* faulty variant of the filter: comparison inverted
NewerFilter_Older(currentFloat, known) ==
  SelectSeq(known, LAMBDA v : /\ parseVersionInPlace(v).err = "nil"
                             /\ VersionKey(v) < currentFloat)

\* faulty variant of the filter: the current version itself passes
NewerFilter_Inclusive(currentFloat, known) ==
  SelectSeq(known, LAMBDA v : /\ parseVersionInPlace(v).err = "nil"
                             /\ VersionKey(v) >= currentFloat)

\* the filter loop of getNewerVersions
NewerFilter(currentFloat, known) ==
  SelectSeq(known, LAMBDA v : /\ parseVersionInPlace(v).err = "nil"
                             /\ VersionKey(v) > currentFloat)

\* insertion of x into an ordered slice: x moves left past the elements it is
\* less than and stops behind the first one it is not less than
RECURSIVE InsertSorted(_, _)
InsertSorted(sorted, x) ==
  IF sorted = <<>> THEN <<x>>
  ELSE IF SortLess(x, sorted[Len(sorted)])
  THEN Append(InsertSorted(SubSeq(sorted, 1, Len(sorted) - 1), x),
              sorted[Len(sorted)])
  ELSE Append(sorted, x)

\* faulty variant: the slice is left in the order of the known list
SortSlice_Unsorted(seq) == seq

\* sort.Slice(newer, less): on slices of fewer than 12 elements the library
\* runs an insertion sort, so elements that compare equal keep their order
RECURSIVE SortSlice(_)
SortSlice(seq) ==
  IF seq = <<>> THEN <<>>
  ELSE InsertSorted(SortSlice(SubSeq(seq, 1, Len(seq) - 1)), seq[Len(seq)])

\* faulty variant: the parse error of the current version is not looked at
getNewerVersions_Unchecked(currentVersion, known) ==
  SortSlice(NewerFilter(VersionKey(currentVersion), known))

\* Checker.getNewerVersions
getNewerVersions(currentVersion, known) ==
  IF parseVersionInPlace(currentVersion).err # "nil"
  THEN <<>>
  ELSE SortSlice(NewerFilter(VersionKey(currentVersion), known))

(***************************************************************************)
(* pkg/checker: anchor scan                                                *)
(***************************************************************************)
ElementNode == "ElementNode"
DocumentNode == "DocumentNode"
TextNode == "TextNode"

\* faulty variant of the attribute test: a name attribute counts on any element
NodeMatches_AnyName(n, anchor) ==
  /\ n.Type = ElementNode
  /\ \E k \in 1..Len(n.Attr) :
       \/ n.Attr[k].Key = "id" /\ n.Attr[k].Val = anchor
       \/ n.Attr[k].Key = "name" /\ n.Attr[k].Val = anchor

\* one step of checkNode on node n: some attribute of an element matches
NodeMatches(n, anchor) ==
  /\ n.Type = ElementNode
  /\ \E k \in 1..Len(n.Attr) :
       \/ n.Attr[k].Key = "id" /\ n.Attr[k].Val = anchor
       \/ n.Data = "a" /\ n.Attr[k].Key = "name" /\ n.Attr[k].Val = anchor

\* checkNode: depth-first walk that stops at the first match
RECURSIVE checkNode(_, _)
checkNode(n, anchor) ==
  \/ NodeMatches(n, anchor)
  \/ \E k \in 1..Len(n.Children) : checkNode(n.Children[k], anchor)

\* faulty variant: a body that cannot be parsed counts as a page without the
\* anchor
checkAnchorInHTML_NoError(body, anchor) ==
  [found |-> ~body.readErr /\ checkNode(body.doc, anchor), err |-> "nil"]

\* Checker.checkAnchorInHTML on a response body: html.Parse fails only when
\* the body cannot be read
checkAnchorInHTML(body, anchor) ==
  IF body.readErr
  THEN [found |-> FALSE, err |-> "failed to parse HTML"]
  ELSE [found |-> checkNode(body.doc, anchor), err |-> "nil"]

(***************************************************************************)
(* Inputs: URLs handed to Check, version lists handed to SetVersions and   *)
(* the answers of the HTTP transport.                                      *)
(***************************************************************************)
Site == "https://docs.redhat.com/en/documentation/openshift_container_platform/"
TheAnchor == "mirroring-image-set-full"

UrlAnchor == Site \o "4.17/html-single/disconnected_environments/index#" \o TheAnchor
UrlPlain == Site \o "4.17/html/scalability_and_performance/telco-hub-ref-design-specs"
UrlCurrent == Site \o "4.20/html-single/authentication_and_authorization/index"
UrlWrongHost == "https://example.com/docs"
UrlWrongPath == "https://docs.redhat.com/something/else"

\* a URL whose format segment holds an escaped '#'
UrlEscaped == Site \o "4.99/html%23x/d/p"
\* a URL of another host whose name contains the documentation domain
UrlOtherHost ==
  "https://docs.redhat.com.example.org/en/documentation/openshift_container_platform/4.99/html/d/p"
\* a URL without scheme
UrlNoScheme == "//docs.redhat.com/en/documentation/openshift_container_platform/5.1/html/d/p"
\* a URL of another language, with a segment after the page and a query
\* a version whose major does not fit an int
UrlHuge == Site \o "99999999999999999999.1/html/d/p"
UrlFrench ==
  "https://docs.redhat.com/fr/documentation/openshift_container_platform/5.1/html/d/p/extra?x=1"

RawURLs ==
  {UrlAnchor, UrlPlain, UrlCurrent, UrlWrongHost, UrlWrongPath, UrlEscaped,
   UrlOtherHost, UrlNoScheme, UrlFrench, UrlHuge}

\* version strings a caller may pass to SetVersions
VersionPool == {"4.17", "4.18x", "4.100", "5.0", "abc"}

RECURSIVE SeqsUpTo(_, _)
SeqsUpTo(S, n) ==
  IF n = 0 THEN {<<>>}
  ELSE LET shorter == SeqsUpTo(S, n - 1)
       IN  shorter \cup { Append(q, x) : q \in shorter, x \in S }

VersionLists == SeqsUpTo(VersionPool, MaxKnown)

Elem(data, attr, children) ==
  [Type |-> ElementNode, Data |-> data, Attr |-> attr, Children |-> children]
Text(data) ==
  [Type |-> TextNode, Data |-> data, Attr |-> <<>>, Children |-> <<>>]
Page(children) ==
  [Type |-> DocumentNode, Data |-> "", Attr |-> <<>>,
   Children |-> <<Elem("html", <<>>,
                    <<Elem("head", <<>>, <<>>), Elem("body", <<>>, children)>>)>>]

NoBody == [readErr |-> FALSE, doc |-> Page(<<>>)]
\* the anchor as an id, nested
BodyWithId ==
  [readErr |-> FALSE,
   doc |-> Page(<<Elem("div", <<[Key |-> "class", Val |-> "c"]>>,
                    <<Text("t"),
                      Elem("h2", <<[Key |-> "id", Val |-> TheAnchor]>>, <<>>)>>)>>)]
\* body that cannot be read
BodyUnreadable == [readErr |-> TRUE, doc |-> Page(<<>>)]
Bodies ==
  { BodyWithId,
    \* the anchor as a legacy named anchor
    [readErr |-> FALSE,
     doc |-> Page(<<Elem("a", <<[Key |-> "name", Val |-> TheAnchor]>>, <<>>)>>)],
    \* no match: other id, name on a non-anchor element
    [readErr |-> FALSE,
     doc |-> Page(<<Elem("h2", <<[Key |-> "id", Val |-> "Mirroring-Image-Set-Full"]>>, <<>>),
                    Elem("span", <<[Key |-> "name", Val |-> TheAnchor]>>, <<>>)>>)],
    BodyUnreadable }

TransportErrors == {"timeout"}
StatusCodes == {199, 200, 399, 400}

\* what the transport can hand back for one request: a transport error, or a
\* status; the body matters for a GET of a page that exists
Responses(method) ==
  { [err |-> e, StatusCode |-> 0, Body |-> NoBody] : e \in TransportErrors }
  \cup
  { [err |-> "nil", StatusCode |-> c, Body |-> NoBody] : c \in StatusCodes }
  \cup
  { [err |-> "nil", StatusCode |-> c, Body |-> b] :
      c \in { k \in StatusCodes : method = "GET" /\ k >= 200 /\ k < 400 },
      b \in Bodies }

(***************************************************************************)
(* State                                                                   *)
(***************************************************************************)
VARIABLES
  knownVersions,    \* Checker.knownVersions
  pc,               \* position of the caller: idle, send, wait, sleep, done
  rawURL,           \* Check: argument
  docURL,           \* Check: parsed reference
  versionsToCheck,  \* Check: candidates
  idx,              \* Check: position of the range loop (1-based)
  result,           \* Check: the CheckResult under construction
  ret,              \* Check: returned (report, error); report is <<>> for nil
  urlString,        \* checkURL: argument
  fragment,         \* checkURL: fragment
  baseURL,          \* checkURL: baseURL
  hasAnchor,        \* checkURL: hasAnchor
  attempt,          \* checkURL: loop counter
  lastErr,          \* checkURL: lastErr
  inflight,         \* request the transport is working on
  sent,             \* history: some request was issued by this Check
  noResponse,       \* history: the running probe got no HTTP response so far
  blind,            \* history: per recorded result, the probe got no response
  resp,             \* checkURL: resp, err of the latest request of the probe
  sleeps,           \* history: durations of the sleeps of the running probe
  heard,            \* history: the answers that ended the attempts of the call
  timeouts,         \* history: requests of the running probe that failed in
                    \* the transport
  other             \* locals of a second call of Check that is not running now

probe == <<urlString, fragment, baseURL, hasAnchor>>

vars == <<knownVersions, pc, rawURL, docURL, versionsToCheck, idx, result, ret,
          probe, attempt, lastErr, inflight, sent, noResponse, blind, resp,
          sleeps, heard, timeouts, other>>

maxRetries == 3

\* NewChecker: Timeout of the http.Client, in seconds
ClientTimeout == 30

DefaultVersions ==
  <<"4.10", "4.11", "4.12", "4.13", "4.14", "4.15", "4.16", "4.17", "4.18",
    "4.19", "4.20">>

NoRequest == [Method |-> "", URL |-> ""]
NoResult ==
  [OriginalURL |-> "", OriginalVersion |-> "", LatestVersion |-> "",
   IsOutdated |-> FALSE, NewerVersions |-> <<>>, AllResults |-> <<>>]
NoReturn == [report |-> <<>>, err |-> "nil"]
NoResponse == [err |-> "nil", StatusCode |-> 0, Body |-> NoBody]

\* the locals of a call of Check that has not started
IdleCall ==
  [pc |-> "idle", rawURL |-> "", docURL |-> NoDoc, versionsToCheck |-> <<>>,
   idx |-> 0, result |-> NoResult, ret |-> NoReturn, urlString |-> "",
   fragment |-> "", baseURL |-> "", hasAnchor |-> FALSE, attempt |-> 0,
   lastErr |-> "nil", inflight |-> NoRequest, sent |-> FALSE,
   noResponse |-> TRUE, blind |-> <<>>, resp |-> NoResponse, sleeps |-> <<>>,
   heard |-> <<>>, timeouts |-> 0]

\* NewChecker, and no call of Check in progress
Init ==
  /\ knownVersions = DefaultVersions
  /\ pc = "idle"
  /\ rawURL = ""
  /\ docURL = NoDoc
  /\ versionsToCheck = <<>>
  /\ idx = 0
  /\ result = NoResult
  /\ ret = NoReturn
  /\ urlString = ""
  /\ fragment = ""
  /\ baseURL = ""
  /\ hasAnchor = FALSE
  /\ attempt = 0
  /\ lastErr = "nil"
  /\ inflight = NoRequest
  /\ sent = FALSE
  /\ noResponse = TRUE
  /\ blind = <<>>
  /\ resp = NoResponse
  /\ sleeps = <<>>
  /\ heard = <<>>
  /\ timeouts = 0
  /\ other = IdleCall

(***************************************************************************)
(* Checker.SetVersions                                                     *)
(***************************************************************************)
\* c.knownVersions = versions
StoreVersions(versions) ==
  /\ knownVersions' = versions
  /\ UNCHANGED <<pc, rawURL, docURL, versionsToCheck, idx, result, ret,
                 probe, attempt, lastErr, inflight, sent, noResponse, blind,
                 resp, sleeps, heard, timeouts, other>>

\* SetVersions called between two calls of Check
SetVersions(versions) ==
  /\ pc = "idle"
  /\ StoreVersions(versions)

(***************************************************************************)
(* Checker.checkURL and Checker.Check                                      *)
(***************************************************************************)
\* checkURL: fragment and baseURL of its argument
Fragment(u) == IF Index(u, "#") # 0 THEN From(u, Index(u, "#") + 1) ELSE ""
BaseOf(u) == IF Index(u, "#") # 0 THEN SubSeq(u, 1, Index(u, "#") - 1) ELSE u

\* checkURL is entered with argument u: its locals before the retry loop
EnterCheckURL(u) ==
  /\ urlString' = u
  /\ fragment' = Fragment(u)
  /\ baseURL' = BaseOf(u)
  /\ hasAnchor' = (Fragment(u) # "")

\* no call of checkURL is running
LeaveCheckURL ==
  /\ urlString' = ""
  /\ fragment' = ""
  /\ baseURL' = ""
  /\ hasAnchor' = FALSE

\* faulty variant of the admission rule: the anchor is not looked at
IsValidNewer_ExistsOnly(exists, anchorExists, anchored) == exists

\* Check: the rule that admits a result to NewerVersions
IsValidNewer(exists, anchorExists, anchored) ==
  exists /\ (~anchored \/ anchorExists)

\* faulty variant: a URL without anchor is recorded as having its anchor
Record_AnchorVacuous(res, version, url, exists, anchorExists, anchored, err) ==
  LET versionResult ==
        [Version |-> version, URL |-> url, Exists |-> exists,
         AnchorExists |-> anchorExists \/ ~anchored, HasAnchor |-> anchored,
         Error |-> err]
  IN  [res EXCEPT
         !.AllResults = Append(@, versionResult),
         !.NewerVersions =
            IF IsValidNewer(exists, anchorExists, anchored)
            THEN Append(@, versionResult) ELSE @]

\* faulty variant: the result of a probe is not kept
Record_Dropped(res, version, url, exists, anchorExists, anchored, err) == res

\* Check: one pass of the loop body after checkURL returned
Record(res, version, url, exists, anchorExists, anchored, err) ==
  LET versionResult ==
        [Version |-> version, URL |-> url, Exists |-> exists,
         AnchorExists |-> anchorExists, HasAnchor |-> anchored, Error |-> err]
  IN  [res EXCEPT
         !.AllResults = Append(@, versionResult),
         !.NewerVersions =
            IF IsValidNewer(exists, anchorExists, anchored)
            THEN Append(@, versionResult) ELSE @]

\* faulty variant: outdated as soon as any candidate was probed
Conclude_AnyProbed(res, doc) ==
  IF Len(res.AllResults) > 0
  THEN [res EXCEPT !.IsOutdated = TRUE,
                   !.LatestVersion =
                      IF Len(res.NewerVersions) > 0
                      THEN res.NewerVersions[Len(res.NewerVersions)].Version
                      ELSE doc.Version]
  ELSE [res EXCEPT !.LatestVersion = doc.Version]

\* faulty variant: the first valid newer version is taken for the latest
Conclude_First(res, doc) ==
  IF Len(res.NewerVersions) > 0
  THEN [res EXCEPT !.IsOutdated = TRUE,
                   !.LatestVersion = res.NewerVersions[1].Version]
  ELSE [res EXCEPT !.LatestVersion = doc.Version]

\* Check: outdated flag and latest version once the loop is over
Conclude(res, doc) ==
  IF Len(res.NewerVersions) > 0
  THEN [res EXCEPT !.IsOutdated = TRUE,
                   !.LatestVersion = res.NewerVersions[Len(res.NewerVersions)].Version]
  ELSE [res EXCEPT !.LatestVersion = doc.Version]

\* faulty variant: the parse error is dropped
CheckFailure_Swallowed(perr) == [report |-> <<>>, err |-> "nil"]

\* Check: what is returned when the URL does not parse
CheckFailure(perr) ==
  [report |-> <<>>, err |-> "failed to parse URL: " \o perr]

\* faulty variant: the known list itself is handed to sort.Slice
KnownAfterCheck_SortedInPlace(known, newer) == SortSlice(known)

\* faulty variant: the known list is filtered in place
KnownAfterCheck_FilteredInPlace(known, newer) == newer

\* c.knownVersions after getNewerVersions, which appends the newer versions
\* to a slice of its own and sorts that slice
KnownAfterCheck(known, newer) == known

\* Check after getNewerVersions: conclude at once or enter the loop
CheckLoop(doc, newer, fresh) ==
  /\ knownVersions' = KnownAfterCheck(knownVersions, newer)
  /\ docURL' = doc
  /\ versionsToCheck' = newer
  /\ idx' = 1
  /\ IF newer = <<>>
     THEN /\ result' = Conclude(fresh, doc)
          /\ ret' = [report |-> <<Conclude(fresh, doc)>>, err |-> "nil"]
          /\ pc' = "done"
          /\ LeaveCheckURL
     ELSE /\ result' = fresh
          /\ ret' = NoReturn
          /\ pc' = "send"
          /\ EnterCheckURL(BuildURL(doc, newer[1]))

\* Check after ParseOCPDocURL
CheckParsed(u, parsed) ==
  IF parsed.err # "nil"
  THEN /\ ret' = CheckFailure(parsed.err)
       /\ UNCHANGED knownVersions
       /\ pc' = "done"
       /\ docURL' = NoDoc
       /\ versionsToCheck' = <<>>
       /\ idx' = 0
       /\ result' = NoResult
       /\ LeaveCheckURL
  ELSE CheckLoop(parsed.doc,
                 getNewerVersions(parsed.doc.Version, knownVersions),
                 [NoResult EXCEPT !.OriginalURL = u,
                                  !.OriginalVersion = parsed.doc.Version])

\* Check up to its first request: parse, enumerate, enter the loop
CheckStart(u) ==
  /\ pc = "idle"
  /\ rawURL' = u
  /\ sent' = FALSE
  /\ blind' = <<>>
  /\ noResponse' = TRUE
  /\ attempt' = 0
  /\ lastErr' = "nil"
  /\ inflight' = NoRequest
  /\ resp' = NoResponse
  /\ sleeps' = <<>>
  /\ heard' = <<>>
  /\ timeouts' = 0
  /\ UNCHANGED other
  /\ CheckParsed(u, ParseOCPDocURL(u))

\* faulty variant of the method selection: HEAD whatever the URL
FirstMethod_AlwaysHead(anchored) == "HEAD"

\* checkURL: c.client.Get when an anchor is to be checked, else c.client.Head
FirstMethod(anchored) == IF anchored THEN "GET" ELSE "HEAD"

\* checkURL: the first request of an attempt
Send ==
  /\ pc = "send"
  /\ inflight' = [Method |-> FirstMethod(hasAnchor), URL |-> baseURL]
  /\ sent' = TRUE
  /\ pc' = "wait"
  /\ resp' = NoResponse
  /\ UNCHANGED <<other, heard, timeouts, knownVersions, rawURL, docURL,
                 versionsToCheck, idx, result, ret, probe, attempt, lastErr,
                 noResponse, blind, sleeps>>

\* checkURL: HEAD failed in the transport, GET is tried in the same attempt
HeadFailed ==
  /\ pc = "wait"
  /\ inflight.Method = "HEAD"
  /\ \E e \in TransportErrors :
       resp' = [err |-> e, StatusCode |-> 0, Body |-> NoBody]
  /\ inflight' = [Method |-> "GET", URL |-> baseURL]
  /\ timeouts' = timeouts + 1
  /\ UNCHANGED <<other, heard, knownVersions, pc, rawURL, docURL,
                 versionsToCheck, idx, result, ret, probe, attempt, lastErr,
                 sent, noResponse, blind, sleeps>>

\* faulty variant: a probe error ends the loop and fails the whole check
Returned_Abort(exists, anchorExists, anchored, err, unanswered) ==
  LET res == Record(result, versionsToCheck[idx], urlString, exists,
                    anchorExists, anchored, err)
  IN  /\ blind' = Append(blind, unanswered)
      /\ sleeps' = <<>>
      /\ timeouts' = 0
      /\ idx' = idx + 1
      /\ attempt' = 0
      /\ lastErr' = "nil"
      /\ inflight' = NoRequest
      /\ noResponse' = TRUE
      /\ IF err # "nil"
         THEN /\ result' = res
              /\ LeaveCheckURL
              /\ pc' = "done"
              /\ ret' = [report |-> <<>>, err |-> err]
         ELSE IF idx < Len(versionsToCheck)
         THEN /\ result' = res
              /\ EnterCheckURL(BuildURL(docURL, versionsToCheck[idx + 1]))
              /\ pc' = "send"
              /\ ret' = ret
         ELSE /\ result' = Conclude(res, docURL)
              /\ LeaveCheckURL
              /\ pc' = "done"
              /\ ret' = [report |-> <<Conclude(res, docURL)>>, err |-> "nil"]

\* checkURL returns (exists, anchorExists, hasAnchor, err): Check records the
\* result and goes on with the next candidate or concludes
Returned(exists, anchorExists, anchored, err, unanswered) ==
  LET res == Record(result, versionsToCheck[idx], urlString, exists,
                    anchorExists, anchored, err)
  IN  /\ blind' = Append(blind, unanswered)
      /\ sleeps' = <<>>
      /\ timeouts' = 0
      /\ idx' = idx + 1
      /\ attempt' = 0
      /\ lastErr' = "nil"
      /\ inflight' = NoRequest
      /\ noResponse' = TRUE
      /\ IF idx < Len(versionsToCheck)
         THEN /\ result' = res
              /\ EnterCheckURL(BuildURL(docURL, versionsToCheck[idx + 1]))
              /\ pc' = "send"
              /\ ret' = ret
         ELSE /\ result' = Conclude(res, docURL)
              /\ LeaveCheckURL
              /\ pc' = "done"
              /\ ret' = [report |-> <<Conclude(res, docURL)>>, err |-> "nil"]

\* faulty variant: a probe that ran out of attempts reports the page as found
Retry_FailOpen(err, unanswered) ==
  IF attempt + 1 < maxRetries
  THEN /\ attempt' = attempt + 1
       /\ lastErr' = err
       /\ noResponse' = unanswered
       /\ inflight' = NoRequest
       /\ pc' = "sleep"
       /\ timeouts' = IF resp'.err # "nil" THEN timeouts + 1 ELSE timeouts
       /\ UNCHANGED <<idx, result, ret, probe, blind, sleeps>>
  ELSE Returned(TRUE, FALSE, hasAnchor, err, unanswered)

\* faulty variant: the loop goes on after its last attempt
Retry_Unbounded(err, unanswered) ==
  /\ attempt' = IF attempt + 1 < maxRetries THEN attempt + 1 ELSE attempt
  /\ lastErr' = err
  /\ noResponse' = unanswered
  /\ inflight' = NoRequest
  /\ pc' = "sleep"
  /\ timeouts' = IF resp'.err # "nil" THEN timeouts + 1 ELSE timeouts
  /\ UNCHANGED <<idx, result, ret, probe, blind, sleeps>>

\* checkURL: `continue` after a failed attempt with lastErr = err
Retry(err, unanswered) ==
  IF attempt + 1 < maxRetries
  THEN /\ attempt' = attempt + 1
       /\ lastErr' = err
       /\ noResponse' = unanswered
       /\ inflight' = NoRequest
       /\ pc' = "sleep"
       /\ timeouts' = IF resp'.err # "nil" THEN timeouts + 1 ELSE timeouts
       /\ UNCHANGED <<idx, result, ret, probe, blind, sleeps>>
  ELSE Returned(FALSE, FALSE, hasAnchor, err, unanswered)

\* faulty variant of the status test: no status is a definitive negative
PageMissing_Never(code) == FALSE

\* checkURL: resp.StatusCode >= 400, the page does not exist
PageMissing(code) == code >= 400

\* checkURL: the answer that ends an attempt (the history heard is written
\* by the specification that keeps it)
Receive(answer) ==
  /\ pc = "wait"
  /\ ~(inflight.Method = "HEAD" /\ answer.err # "nil")
  /\ resp' = answer
  /\ UNCHANGED <<other, knownVersions, rawURL, docURL, versionsToCheck, sent>>
  /\ LET scan == checkAnchorInHTML(answer.Body, fragment)
     IN  IF answer.err # "nil"
         THEN Retry(answer.err, noResponse)
         ELSE IF PageMissing(answer.StatusCode)
         THEN Returned(FALSE, FALSE, hasAnchor, "nil", FALSE)
         ELSE IF answer.StatusCode < 200 \/ answer.StatusCode >= 400
         THEN Retry(lastErr, FALSE)
         ELSE IF ~hasAnchor
         THEN Returned(TRUE, FALSE, hasAnchor, "nil", FALSE)
         ELSE IF scan.err # "nil"
         THEN Retry(scan.err, FALSE)
         ELSE Returned(TRUE, scan.found, hasAnchor, "nil", FALSE)

\* faulty variant of the backoff: the same pause before every retry
Backoff_Constant(k) == 2

\* checkURL: time.Duration(attempt) * 2 * time.Second, in seconds
Backoff(k) == k * 2

\* checkURL: time.Sleep before attempts after the first
Sleep ==
  /\ pc = "sleep"
  /\ attempt > 0
  /\ sleeps' = Append(sleeps, Backoff(attempt))
  /\ pc' = "send"
  /\ UNCHANGED <<other, heard, timeouts, knownVersions, rawURL, docURL,
                 versionsToCheck, idx, result, ret, probe, attempt, lastErr,
                 inflight, sent, noResponse, blind, resp>>

\* the caller has taken the return value; the Checker is free for a new call
Finish ==
  /\ pc = "done"
  /\ pc' = "idle"
  /\ rawURL' = ""
  /\ docURL' = NoDoc
  /\ versionsToCheck' = <<>>
  /\ idx' = 0
  /\ result' = NoResult
  /\ ret' = NoReturn
  /\ LeaveCheckURL
  /\ sent' = FALSE
  /\ blind' = <<>>
  /\ resp' = NoResponse
  /\ sleeps' = <<>>
  /\ heard' = <<>>
  /\ UNCHANGED <<other, knownVersions, attempt, lastErr, inflight, noResponse,
                 timeouts>>

Next ==
  \/ \E versions \in VersionLists : SetVersions(versions)
  \/ \E u \in RawURLs : CheckStart(u)
  \/ Send
  \/ HeadFailed
  \/ \E answer \in Responses(inflight.Method) :
       Receive(answer) /\ UNCHANGED heard
  \/ Sleep
  \/ Finish

Spec == Init /\ [][Next]_vars

\* every request returns a response or an error
Answer ==
  \/ HeadFailed
  \/ \E answer \in Responses(inflight.Method) :
       Receive(answer) /\ UNCHANGED heard

\* a call of Check keeps running, and the transport answers every request
SpecLive ==
  /\ Init
  /\ [][Next]_vars
  /\ WF_vars(Send)
  /\ WF_vars(Sleep)
  /\ WF_vars(Answer)

(***************************************************************************)
(* Two calls of Check on one Checker                                       *)
(***************************************************************************)
\* the locals of the running call
Local ==
  [pc |-> pc, rawURL |-> rawURL, docURL |-> docURL,
   versionsToCheck |-> versionsToCheck, idx |-> idx, result |-> result,
   ret |-> ret, urlString |-> urlString, fragment |-> fragment,
   baseURL |-> baseURL, hasAnchor |-> hasAnchor, attempt |-> attempt,
   lastErr |-> lastErr, inflight |-> inflight, sent |-> sent,
   noResponse |-> noResponse, blind |-> blind, resp |-> resp,
   sleeps |-> sleeps, heard |-> heard, timeouts |-> timeouts]

\* the scheduler takes the processor from one call and gives it to the other;
\* the Checker is the only thing the two calls share
Switch ==
  /\ other' = Local
  /\ pc' = other.pc
  /\ rawURL' = other.rawURL
  /\ docURL' = other.docURL
  /\ versionsToCheck' = other.versionsToCheck
  /\ idx' = other.idx
  /\ result' = other.result
  /\ ret' = other.ret
  /\ urlString' = other.urlString
  /\ fragment' = other.fragment
  /\ baseURL' = other.baseURL
  /\ hasAnchor' = other.hasAnchor
  /\ attempt' = other.attempt
  /\ lastErr' = other.lastErr
  /\ inflight' = other.inflight
  /\ sent' = other.sent
  /\ noResponse' = other.noResponse
  /\ blind' = other.blind
  /\ resp' = other.resp
  /\ sleeps' = other.sleeps
  /\ heard' = other.heard
  /\ timeouts' = other.timeouts
  /\ UNCHANGED knownVersions

\* URLs one and two versions behind the newest default version
UrlRecent == Site \o "4.19/html-single/disconnected_environments/index#" \o TheAnchor
UrlBehind == Site \o "4.18/html/scalability_and_performance/telco-hub-ref-design-specs"
ConcURLs == {UrlRecent, UrlBehind, UrlWrongHost}

\* the answers of the transport while two calls run; the body is left out
\* where checkURL does not read it
ConcResponses(method, anchored) ==
  { r \in Responses(method) :
      \/ r.err # "nil"
      \/ r.StatusCode = 400
      \/ r.StatusCode = 200 /\ r.Body = NoBody
      \/ r.StatusCode = 200 /\ anchored /\ r.Body \in {BodyWithId, BodyUnreadable} }

NextConc ==
  \/ \E u \in ConcURLs : CheckStart(u)
  \/ Send
  \/ HeadFailed
  \/ \E answer \in ConcResponses(inflight.Method, hasAnchor) :
       Receive(answer) /\ heard' = Append(heard, answer)
  \/ Sleep
  \/ Finish
  \/ Switch

SpecConc == Init /\ [][NextConc]_vars

(***************************************************************************)
(* SetVersions while a call of Check is running                            *)
(***************************************************************************)
\* lists handed to SetVersions by a caller that does not wait for Check
LaterLists == {<<>>, <<"4.19">>, <<"5.0", "4.20">>}

NextSet ==
  \/ \E versions \in LaterLists : StoreVersions(versions)
  \/ \E u \in ConcURLs : CheckStart(u)
  \/ Send
  \/ HeadFailed
  \/ \E answer \in ConcResponses(inflight.Method, hasAnchor) :
       Receive(answer) /\ heard' = Append(heard, answer)
  \/ Sleep
  \/ Finish

SpecSet == Init /\ [][NextSet]_vars

(***************************************************************************)
(* Properties                                                              *)
(***************************************************************************)
\* Check has returned a report
Succeeded == pc = "done" /\ ret.err = "nil" /\ Len(ret.report) = 1
Report == ret.report[1]

\* a call of Check got past parsing (running or returned)
Enumerated == pc \in {"send", "wait", "sleep"} \/ Succeeded

\* getNewerVersions has just returned to Check
JustEnumerated ==
  \/ pc = "send" /\ idx = 1 /\ attempt = 0
  \/ Succeeded /\ versionsToCheck = <<>>

Versions(results) == [i \in 1..Len(results) |-> results[i].Version]

\* major.minor: one or more digits, a dot, one or more digits, nothing else
WellFormedAt(v, d1) ==
  /\ d1 > 1 /\ d1 <= Len(v) /\ Char(v, d1) = "."
  /\ SpanEnd(v, d1 + 1, Digits) > d1 + 1
  /\ SpanEnd(v, d1 + 1, Digits) = Len(v) + 1

WellFormed(v) == WellFormedAt(v, SpanEnd(v, 1, Digits))

\* the pair (major, minor) at the head of a version string, and its key
\* major + minor/100 scaled by 100
HasKey(v) == parseVersionInPlace(v).err = "nil"
Pair(v) == parseVersionInPlace(v).MajorMinor
KeyOf(v) == 100 * Pair(v)[1] + Pair(v)[2]

PairLeq(a, b) == a[1] < b[1] \/ (a[1] = b[1] /\ a[2] <= b[2])

Keys(vs) == [i \in 1..Len(vs) |-> KeyOf(vs[i])]
Pairs(vs) == [i \in 1..Len(vs) |-> Pair(vs[i])]

KeyAscending(vs) ==
  LET k == Keys(vs) IN \A i \in 1..(Len(vs) - 1) : k[i] <= k[i + 1]
KeyStrictlyAscending(vs) ==
  LET k == Keys(vs) IN \A i \in 1..(Len(vs) - 1) : k[i] < k[i + 1]
PairAscending(vs) ==
  LET q == Pairs(vs) IN \A i \in 1..(Len(vs) - 1) : PairLeq(q[i], q[i + 1])

\* number of positions of seq that hold x
Count(seq, x) == Cardinality({ i \in 1..Len(seq) : seq[i] = x })

\* C1: after a successful Check, NewerVersions is the subsequence of
\* AllResults of the results with Exists and (no anchor or AnchorExists);
\* a result whose page exists but whose anchor is missing is in AllResults
\* and not in NewerVersions.
C1_ValidSubsequence ==
  Succeeded =>
    /\ Report.NewerVersions =
         SelectSeq(Report.AllResults,
                   LAMBDA v : v.Exists /\ (~v.HasAnchor \/ v.AnchorExists))
    /\ \A i \in 1..Len(Report.AllResults) :
         LET v == Report.AllResults[i]
         IN  (v.Exists /\ v.HasAnchor /\ ~v.AnchorExists) =>
               \A j \in 1..Len(Report.NewerVersions) : Report.NewerVersions[j] # v

C1_Witness ==
  /\ Succeeded
  /\ Len(Report.NewerVersions) > 0
  /\ \E i \in 1..Len(Report.AllResults) :
       LET v == Report.AllResults[i]
       IN  v.Exists /\ v.HasAnchor /\ ~v.AnchorExists

\* C2: in every report, IsOutdated is true iff NewerVersions is non-empty.
C2_OutdatedIffNewer ==
  Succeeded => (Report.IsOutdated <=> Len(Report.NewerVersions) > 0)

C2_Witness ==
  /\ Succeeded
  /\ ~Report.IsOutdated
  /\ Len(Report.AllResults) > 0

\* C3: in every report, LatestVersion is the Version of the last element of
\* NewerVersions when there is one, and the version parsed from the input URL
\* otherwise.
C3_LatestVersion ==
  Succeeded =>
    /\ Report.OriginalVersion = docURL.Version
    /\ Report.LatestVersion =
         IF Len(Report.NewerVersions) > 0
         THEN Report.NewerVersions[Len(Report.NewerVersions)].Version
         ELSE Report.OriginalVersion

C3_Witness ==
  /\ Succeeded
  /\ Len(Report.NewerVersions) >= 2
  /\ Report.NewerVersions[1].Version # Report.LatestVersion

\* C4: a candidate whose probe ended every attempt in a transport error is
\* recorded with Exists = FALSE and is not in NewerVersions; when that is so
\* for every candidate the report is not outdated and LatestVersion is the
\* original version.
C4_FailClosed ==
  /\ Len(blind) = Len(result.AllResults)
  /\ \A i \in 1..Len(result.AllResults) :
       blind[i] =>
         /\ ~result.AllResults[i].Exists
         /\ \A j \in 1..Len(result.NewerVersions) :
              result.NewerVersions[j] # result.AllResults[i]
  /\ (Succeeded /\ \A i \in 1..Len(blind) : blind[i]) =>
       /\ ~Report.IsOutdated
       /\ Report.LatestVersion = Report.OriginalVersion
       /\ Report.NewerVersions = <<>>

C4_Witness ==
  /\ Succeeded
  /\ Len(blind) >= 2
  /\ \A i \in 1..Len(blind) : blind[i]

\* C5: when the input URL parses, Check returns a report and no error
\* whatever the probes returned; AllResults has one entry per candidate, in
\* order, also when a probe ended with an error.
C5_ProbeErrorsAreData ==
  pc = "done" =>
    \/ /\ ret.err = "nil"
       /\ Len(ret.report) = 1
       /\ Len(Report.AllResults) = Len(versionsToCheck)
       /\ \A i \in 1..Len(versionsToCheck) :
            /\ Report.AllResults[i].Version = versionsToCheck[i]
            /\ Report.AllResults[i].URL = BuildURL(docURL, versionsToCheck[i])
    \/ ParseOCPDocURL(rawURL).err # "nil"

C5_Witness ==
  /\ Succeeded
  /\ Len(Report.AllResults) >= 2
  /\ Report.AllResults[1].Error # "nil"
  /\ Report.AllResults[2].Exists

\* C6: when the input URL does not parse, Check returns no report and an
\* error, enumerates no candidate and issues no request.
C6_ParseFailureIsFatal ==
  (pc = "done" /\ ParseOCPDocURL(rawURL).err # "nil") =>
    /\ ret.report = <<>>
    /\ ret.err # "nil"
    /\ versionsToCheck = <<>>
    /\ result.AllResults = <<>>
    /\ ~sent
    /\ inflight = NoRequest

C6_Witness ==
  /\ pc = "done"
  /\ rawURL = UrlWrongHost
  /\ ret.report = <<>>

C8_StrictlyAscending ==
  JustEnumerated =>
    /\ \A i \in 1..Len(versionsToCheck) :
         KeyOf(versionsToCheck[i]) > KeyOf(docURL.Version)
    /\ KeyStrictlyAscending(versionsToCheck)

\* C8 amended: getNewerVersions returns only versions with a key above the
\* key of current, in ascending key order; the order is strict unless two
\* entries of the known list have the same key.
C8_Ascending ==
  JustEnumerated =>
    LET k  == Keys(versionsToCheck)
        kk == Keys(knownVersions)
        keyed == { i \in 1..Len(knownVersions) : HasKey(knownVersions[i]) }
    IN  /\ \A i \in 1..Len(versionsToCheck) :
             /\ HasKey(versionsToCheck[i])
             /\ k[i] > KeyOf(docURL.Version)
        /\ \A i \in 1..(Len(versionsToCheck) - 1) : k[i] <= k[i + 1]
        /\ (\A i, j \in keyed : i # j => kk[i] # kk[j])
             => \A i \in 1..(Len(versionsToCheck) - 1) : k[i] < k[i + 1]

C8_Witness ==
  /\ JustEnumerated
  /\ Len(versionsToCheck) >= 2
  /\ \E i \in 1..Len(knownVersions) :
       /\ HasKey(knownVersions[i])
       /\ KeyOf(knownVersions[i]) <= KeyOf(docURL.Version)

\* C9: getNewerVersions returns every entry of the known list with a key
\* above the key of current, and leaves out every entry that is not of the
\* form major.minor, so every candidate is a well-formed major.minor string.
C9_OnlyWellFormed ==
  JustEnumerated =>
    /\ \A i \in 1..Len(knownVersions) :
         LET v == knownVersions[i]
         IN  IF WellFormed(v) /\ KeyOf(v) > KeyOf(docURL.Version)
             THEN Count(versionsToCheck, v) = Count(knownVersions, v)
             ELSE Count(versionsToCheck, v) = 0
    /\ \A i \in 1..Len(versionsToCheck) : WellFormed(versionsToCheck[i])

\* C10: when no entry of the known list has a key above the key of the
\* input URL's version, Check issues no request and returns IsOutdated =
\* FALSE, LatestVersion = OriginalVersion and empty AllResults and
\* NewerVersions.
C10_NothingNewer ==
  (/\ pc = "done"
   /\ docURL # NoDoc
   /\ \A i \in 1..Len(knownVersions) :
        HasKey(knownVersions[i]) =>
          \/ AtoiClamp \in {docURL.MajorMinor[1], docURL.MajorMinor[2]}
          \/ KeyOf(knownVersions[i]) <=
               100 * docURL.MajorMinor[1] + docURL.MajorMinor[2])
    => /\ Succeeded
       /\ ~sent
       /\ ~Report.IsOutdated
       /\ Report.LatestVersion = Report.OriginalVersion
       /\ Report.LatestVersion = docURL.Version
       /\ Report.AllResults = <<>>
       /\ Report.NewerVersions = <<>>

C10_Witness ==
  /\ Succeeded
  /\ rawURL = UrlCurrent
  /\ knownVersions = DefaultVersions
  /\ Report.LatestVersion = "4.20"

\* a step in which checkURL gets the answer that ends an attempt
Answered == pc = "wait" /\ pc' # "wait"

\* a step in which checkURL returns to Check, which records the result
ProbeReturns == Answered /\ idx' = idx + 1

\* the result recorded by the step
Recorded == result'.AllResults[idx]

\* the step goes on to another attempt for the same candidate
NextAttempt ==
  /\ pc' = "sleep"
  /\ idx' = idx
  /\ attempt' = attempt + 1
  /\ result' = result

\* the answer of the step is a failed, non-definitive attempt as listed by
\* the status-code policy: transport failure or status below 200
Failed(a) == a.err # "nil" \/ a.StatusCode < 200

\* C11 as stated: a status in [200,400) makes pageExists true; a status
\* >= 400 returns pageExists = false with a nil error at once; transport
\* failures and statuses outside both ranges lead to another attempt while
\* attempts remain.
C11_StatusPolicy ==
  [][Answered =>
      /\ (resp'.err = "nil" /\ resp'.StatusCode >= 200 /\ resp'.StatusCode < 400)
           => ProbeReturns /\ Recorded.Exists
      /\ (resp'.err = "nil" /\ resp'.StatusCode >= 400)
           => /\ ProbeReturns
              /\ ~Recorded.Exists /\ Recorded.Error = "nil"
              /\ inflight' = NoRequest /\ sleeps' = <<>>
      /\ (Failed(resp') /\ attempt + 1 < maxRetries) => NextAttempt]_vars

\* C11 amended: a status in [200,400) makes pageExists true unless an anchor
\* has to be validated and the body cannot be parsed, which fails the
\* attempt; a status >= 400 returns pageExists = false with a nil error at
\* once, with no further request or sleep for the candidate; transport
\* failures, statuses below 200 and unparsable bodies lead to another attempt
\* while attempts remain, and to pageExists = false when none remain.
C11_StatusPolicyParsed ==
  [][Answered =>
      LET ok == resp'.err = "nil" /\ resp'.StatusCode >= 200 /\ resp'.StatusCode < 400
          unparsed == ok /\ hasAnchor /\ resp'.Body.readErr
      IN  /\ (ok /\ ~unparsed) => ProbeReturns /\ Recorded.Exists
          /\ (resp'.err = "nil" /\ resp'.StatusCode >= 400)
               => /\ ProbeReturns
                  /\ ~Recorded.Exists /\ Recorded.Error = "nil"
                  /\ inflight' = NoRequest /\ sleeps' = <<>>
                  /\ pc' \in {"send", "done"}
                  /\ attempt' = 0
          /\ (Failed(resp') \/ unparsed) =>
               IF attempt + 1 < maxRetries
               THEN NextAttempt
               ELSE ProbeReturns /\ ~Recorded.Exists]_vars

\* a probe was answered 400 on its first attempt and the result is recorded
C11_Witness ==
  /\ pc \in {"send", "done"}
  /\ resp.err = "nil" /\ resp.StatusCode >= 400
  /\ Len(result.AllResults) > 0
  /\ ~result.AllResults[Len(result.AllResults)].Exists
  /\ result.AllResults[Len(result.AllResults)].Error = "nil"

\* the latest answer of the running probe failed its attempt without
\* settling the candidate
FailedAttempt ==
  \/ resp.err # "nil"
  \/ resp.StatusCode < 200
  \/ /\ resp.StatusCode < 400 /\ hasAnchor /\ resp.Body.readErr

\* C12: at most 3 attempts are made per candidate; there is no sleep before
\* the first attempt, a sleep of 2 before the second and of 4 before the
\* third; a sleep happens only after a failed, non-definitive attempt and is
\* followed by another attempt for the same candidate.
C12_RetrySchedule ==
  /\ [](/\ attempt \in 0..(maxRetries - 1)
        /\ pc \in {"send", "wait"} =>
             /\ Len(sleeps) = attempt
             /\ \A k \in 1..Len(sleeps) : sleeps[k] = 2 * k
        /\ pc = "sleep" =>
             /\ attempt \in 1..(maxRetries - 1)
             /\ Len(sleeps) = attempt - 1
             /\ FailedAttempt)
  /\ [][/\ sleeps' # sleeps /\ sleeps' # <<>> =>
             /\ pc = "sleep" /\ pc' = "send"
             /\ sleeps' = Append(sleeps, 2 * attempt)
        /\ pc = "sleep" =>
             /\ pc' = "send" /\ sleeps' # sleeps
             /\ idx' = idx /\ attempt' = attempt /\ urlString' = urlString
        /\ pc = "send" =>
             /\ pc' = "wait"
             /\ inflight'.URL = baseURL /\ inflight'.Method \in {"GET", "HEAD"}]_vars

\* the third attempt of a probe is under way after sleeps of 2 and 4
C12_Witness ==
  /\ pc = "wait"
  /\ attempt = 2
  /\ sleeps = <<2, 4>>

\* the step ends a probe by exhaustion: its last attempt failed
Exhausted ==
  /\ ProbeReturns
  /\ \/ Failed(resp')
     \/ /\ resp'.StatusCode < 400 /\ hasAnchor /\ resp'.Body.readErr

\* C13: a probe that uses up its 3 attempts returns pageExists = false with
\* a non-nil error, so a nil error with pageExists = false always means that
\* an attempt received a status >= 400.
C13_ExhaustionHasError ==
  [][ProbeReturns =>
      /\ Exhausted =>
           /\ attempt = maxRetries - 1
           /\ ~Recorded.Exists
           /\ Recorded.Error # "nil"
      /\ (Recorded.Error = "nil" /\ ~Recorded.Exists) =>
           (resp'.err = "nil" /\ resp'.StatusCode >= 400)]_vars

\* C14: for a candidate URL with a fragment every request of the probe is a
\* GET of the URL before the fragment and no HEAD is sent; for a URL without
\* fragment each attempt sends a HEAD first, and a GET in that attempt only
\* when the HEAD failed in the transport.
C14_MethodSelection ==
  /\ [](pc = "wait" =>
          /\ inflight.Method \in {"GET", "HEAD"}
          /\ ~Contains(inflight.URL, "#")
          /\ IF fragment # ""
             THEN /\ hasAnchor
                  /\ inflight.Method = "GET"
                  /\ urlString = inflight.URL \o "#" \o fragment
             ELSE /\ ~hasAnchor
                  /\ urlString \in {inflight.URL, inflight.URL \o "#"})
  /\ [][/\ (pc = "send" /\ ~hasAnchor) => inflight'.Method = "HEAD"
        /\ (pc = "send" /\ hasAnchor) => inflight'.Method = "GET"
        /\ (pc = "wait" /\ inflight' # inflight /\ inflight' # NoRequest) =>
             /\ inflight.Method = "HEAD" /\ inflight'.Method = "GET"
             /\ inflight'.URL = inflight.URL
             /\ resp'.err # "nil"
             /\ attempt' = attempt /\ idx' = idx /\ sleeps' = sleeps
        /\ (pc = "wait" /\ inflight.Method = "HEAD" /\ resp'.err = "nil") =>
             inflight' = NoRequest
        /\ (pc = "wait" /\ inflight.Method = "GET") =>
             inflight' \in {inflight, NoRequest}]_vars

\* a URL without fragment whose HEAD failed is being fetched with GET
C14_Witness ==
  /\ pc = "wait"
  /\ ~hasAnchor
  /\ inflight.Method = "GET"
  /\ resp.err # "nil"

\* all nodes of the tree below n, n included
RECURSIVE Nodes(_)
Nodes(n) == {n} \cup UNION { Nodes(n.Children[k]) : k \in 1..Len(n.Children) }

Attrs(n) == { n.Attr[k] : k \in 1..Len(n.Attr) }

\* some element carries id = anchor, or some <a> element name = anchor
HasAnchorElement(doc, anchor) ==
  \E n \in Nodes(doc) :
    /\ n.Type = ElementNode
    /\ \/ [Key |-> "id", Val |-> anchor] \in Attrs(n)
       \/ n.Data = "a" /\ [Key |-> "name", Val |-> anchor] \in Attrs(n)

\* anchors looked for in the bodies: the one of the input URL, the same in
\* another case, the value of a class attribute and the text of a text node
ScanAnchors == {TheAnchor, "Mirroring-Image-Set-Full", "c", "t"}

\* C15: checkAnchorInHTML returns true exactly when some element of the
\* parsed tree has an id attribute equal to the anchor or some <a> element
\* has a name attribute equal to it, wherever the element sits; the probe
\* records that answer as AnchorExists.
C15_AnchorScan ==
  /\ [](\A b \in Bodies, a \in ScanAnchors :
          ~b.readErr =>
            /\ checkAnchorInHTML(b, a).err = "nil"
            /\ checkAnchorInHTML(b, a).found = HasAnchorElement(b.doc, a))
  /\ [][(ProbeReturns /\ hasAnchor /\ Recorded.Exists) =>
          /\ ~resp'.Body.readErr
          /\ Recorded.AnchorExists = HasAnchorElement(resp'.Body.doc, fragment)]_vars

\* a probe found the anchor as the name of an <a> element
C15_Witness ==
  /\ pc \in {"send", "done"}
  /\ Len(result.AllResults) > 0
  /\ result.AllResults[Len(result.AllResults)].AnchorExists
  /\ \E n \in Nodes(resp.Body.doc) :
       n.Data = "a" /\ [Key |-> "name", Val |-> TheAnchor] \in Attrs(n)

\* the report under construction, or the one returned
Current == IF Succeeded THEN Report ELSE result

\* s ends with t
HasSuffix(s, t) ==
  Len(t) <= Len(s) /\ SubSeq(s, Len(s) - Len(t) + 1, Len(s)) = t

\* C16: in every report the HasAnchor field of every entry of AllResults
\* equals whether the parsed input reference has a non-empty anchor, for any
\* accepted input URL.
C16_HasAnchorMirrors ==
  Enumerated =>
    \A i \in 1..Len(Current.AllResults) :
      Current.AllResults[i].HasAnchor = (docURL.Anchor # "")

\* C17: for an input URL with an anchor the URL of every entry of AllResults
\* and NewerVersions ends with '#' followed by that anchor; for an input
\* without anchor no candidate URL contains a fragment.
C17_AnchorPreserved ==
  Enumerated =>
    \A e \in { Current.AllResults[i] : i \in 1..Len(Current.AllResults) }
             \cup { Current.NewerVersions[i] : i \in 1..Len(Current.NewerVersions) } :
      IF docURL.Anchor # ""
      THEN HasSuffix(e.URL, "#" \o docURL.Anchor)
      ELSE ~Contains(e.URL, "#")

\* well-formed versions a sibling URL is built for
SiblingVersions == {"4.18", "4.100", "10.0"}

\* C18: for every reference R obtained from ParseOCPDocURL and every
\* well-formed version V, ParseOCPDocURL(R.BuildURL(V)) succeeds with version
\* V and with the BaseURL, Format, Document, Page and Anchor of R.
C18_RoundTrip ==
  JustEnumerated =>
    \A V \in SiblingVersions :
      LET back == ParseOCPDocURL(BuildURL(docURL, V))
      IN  /\ back.err = "nil"
          /\ back.doc.Version = V
          /\ back.doc.BaseURL = docURL.BaseURL
          /\ back.doc.Format = docURL.Format
          /\ back.doc.Document = docURL.Document
          /\ back.doc.Page = docURL.Page
          /\ back.doc.Anchor = docURL.Anchor

\* u with the version segment, which starts at position k, replaced by V
WithVersion(u, k, old, V) == SubSeq(u, 1, k - 1) \o V \o From(u, k + Len(old))

\* C19: for every accepted URL u, BuildURL(parse(u), version of u) is u, and
\* for any other version V the built URL is u with the version segment
\* replaced by V and every other part unchanged.
C19_OnlyVersionDiffers ==
  JustEnumerated =>
    /\ BuildURL(docURL, docURL.Version) = rawURL
    /\ \A V \in SiblingVersions :
         BuildURL(docURL, V) =
           WithVersion(rawURL, Index(rawURL, PathLiteral) + Len(PathLiteral),
                       docURL.Version, V)

\* C20: ParseOCPDocURL returns an error, and Check sends no request, for
\* every URL whose host is not docs.redhat.com, including hosts that contain
\* that name as part of a longer name.
C20_OtherHostRejected ==
  (pc # "idle" /\ UrlParse(rawURL).Host # DocsHost) =>
    /\ ParseOCPDocURL(rawURL).err # "nil"
    /\ pc = "done"
    /\ ret.err # "nil" /\ ret.report = <<>>
    /\ ~sent

\* positions of the '/' characters of s
Slashes(s) == { j \in 1..Len(s) : Char(s, j) = "/" }

\* t is version/format/document/page: exactly four non-empty segments, the
\* first a well-formed major.minor
FourSegments(t) ==
  /\ Cardinality(Slashes(t)) = 3
  /\ 1 \notin Slashes(t) /\ Len(t) \notin Slashes(t)
  /\ \A j \in Slashes(t) : j + 1 \notin Slashes(t)
  /\ WellFormed(SubSeq(t, 1, Min(Slashes(t)) - 1))

\* path p is exactly <prefix>/<major>.<minor>/<format>/<document>/<page>
ExactPath(p) ==
  /\ Contains(p, PathLiteral)
  /\ FourSegments(From(p, Index(p, PathLiteral) + Len(PathLiteral)))

\* C21: ParseOCPDocURL returns an error for every URL on the right host whose
\* path is not exactly <prefix>/<major>.<minor>/<format>/<document>/<page>;
\* a path with missing or additional segments is rejected.
C21_OnlyExactPaths ==
  (/\ pc = "done"
   /\ UrlParse(rawURL).Host = DocsHost
   /\ ~ExactPath(UrlParse(rawURL).Path))
    => /\ ParseOCPDocURL(rawURL).err # "nil"
       /\ ret.err # "nil"

\* a probe of the running Check is under way
Probing == pc \in {"send", "wait", "sleep"}

\* C22: within one Check the candidates are probed one after another: the
\* probe of candidate i has finished and its result is in AllResults before
\* the first request of candidate i+1 is sent, and at most one request is in
\* flight.
C22_Sequential ==
  /\ [](/\ Probing =>
             /\ idx \in 1..Len(versionsToCheck)
             /\ Len(result.AllResults) = idx - 1
             /\ urlString = BuildURL(docURL, versionsToCheck[idx])
        /\ inflight # NoRequest => pc = "wait" /\ inflight.URL = baseURL
        /\ pc = "wait" => inflight # NoRequest)
  /\ [][/\ (inflight' # inflight /\ inflight' # NoRequest) =>
             /\ \/ inflight = NoRequest
                \/ inflight.Method = "HEAD" /\ resp'.err # "nil"
             /\ idx' = idx
             /\ result' = result
        /\ (Probing /\ idx' # idx) =>
             /\ idx' = idx + 1
             /\ inflight' = NoRequest
             /\ Len(result'.AllResults) = idx
             /\ result'.AllResults[idx].Version = versionsToCheck[idx]
             /\ attempt' = 0 /\ sleeps' = <<>>
        /\ (Probing /\ idx' = idx) => result' = result]_vars

\* the second candidate is being requested after the first was recorded
C22_Witness ==
  /\ pc = "wait"
  /\ idx = 2
  /\ Len(result.AllResults) = 1
  /\ result.AllResults[1].Version = versionsToCheck[1]

\* what a call of checkURL returns when it runs alone and gets the answers
\* of log, one per attempt: the result and the answers left over
RECURSIVE SoloProbe(_, _, _, _, _)
SoloRetry(frag, anchored, log, k, err) ==
  IF k + 1 < maxRetries
  THEN SoloProbe(frag, anchored, log, k + 1, err)
  ELSE [exists |-> FALSE, anchorExists |-> FALSE, err |-> err, rest |-> log]
SoloScan(frag, anchored, log, k, scan) ==
  IF scan.err # "nil"
  THEN SoloRetry(frag, anchored, log, k, scan.err)
  ELSE [exists |-> TRUE, anchorExists |-> scan.found, err |-> "nil", rest |-> log]
SoloAnswer(frag, anchored, answer, log, k, lastE) ==
  IF answer.err # "nil"
  THEN SoloRetry(frag, anchored, log, k, answer.err)
  ELSE IF answer.StatusCode >= 400
  THEN [exists |-> FALSE, anchorExists |-> FALSE, err |-> "nil", rest |-> log]
  ELSE IF answer.StatusCode < 200
  THEN SoloRetry(frag, anchored, log, k, lastE)
  ELSE IF ~anchored
  THEN [exists |-> TRUE, anchorExists |-> FALSE, err |-> "nil", rest |-> log]
  ELSE SoloScan(frag, anchored, log, k, checkAnchorInHTML(answer.Body, frag))
SoloProbe(frag, anchored, log, k, lastE) ==
  IF log = <<>>
  THEN [exists |-> FALSE, anchorExists |-> FALSE, err |-> "unfinished", rest |-> log]
  ELSE SoloAnswer(frag, anchored, Head(log), Tail(log), k, lastE)

\* the report of a call of Check that runs alone on the candidates newer
RECURSIVE SoloLoop(_, _, _, _, _)
SoloRecord(doc, newer, i, res, url, p) ==
  SoloLoop(doc, newer, i + 1,
           Record(res, newer[i], url, p.exists, p.anchorExists,
                  Fragment(url) # "", p.err),
           p.rest)
SoloLoop(doc, newer, i, res, log) ==
  IF i > Len(newer)
  THEN Conclude(res, doc)
  ELSE SoloRecord(doc, newer, i, res, BuildURL(doc, newer[i]),
                  SoloProbe(Fragment(BuildURL(doc, newer[i])),
                            Fragment(BuildURL(doc, newer[i])) # "", log, 0, "nil"))
SoloParsed(u, parsed, known, log) ==
  IF parsed.err # "nil"
  THEN CheckFailure(parsed.err)
  ELSE [report |-> <<SoloLoop(parsed.doc,
                              getNewerVersions(parsed.doc.Version, known), 1,
                              [NoResult EXCEPT !.OriginalURL = u,
                                               !.OriginalVersion = parsed.doc.Version],
                              log)>>,
        err |-> "nil"]
SoloCheck(u, known, log) == SoloParsed(u, ParseOCPDocURL(u), known, log)

\* C23: calls of Check that run concurrently on one Checker do not
\* interfere: no step of a call writes the known versions of the Checker, a
\* step of one call leaves the locals of the other call alone, and each call
\* (it is the running call when it returns) returns what the same call
\* returns when it runs alone on the Checker as it was constructed and gets
\* the same answers
C23_NoInterference ==
  /\ [](pc = "done" => ret = SoloCheck(rawURL, DefaultVersions, heard))
  /\ [][/\ knownVersions' = knownVersions
        /\ other' # other => (other' = Local /\ Local' = other)]_vars

\* one call has returned a report on two candidates while the other call,
\* which started before that return, is waiting for an answer
C23_Witness ==
  /\ pc = "done"
  /\ ret.err = "nil"
  /\ Len(ret.report[1].AllResults) = 2
  /\ other.pc = "wait"
  /\ other.attempt = 1
  /\ other.rawURL # rawURL

\* the seconds the running probe has spent in requests that ran into the
\* timeout and in backoff sleeps
RECURSIVE Sum(_)
Sum(seq) == IF seq = <<>> THEN 0 ELSE Head(seq) + Sum(Tail(seq))
Elapsed == timeouts * ClientTimeout + Sum(sleeps)

\* C24: a probe in which every request runs into the timeout has at most 3
\* request timeouts, and the time it has spent stays within 3 times the
\* timeout plus the longest backoff
C24_UnreachableBound ==
  (Probing /\ noResponse)
    => /\ timeouts <= maxRetries
       /\ Elapsed <= maxRetries * (ClientTimeout + Backoff(maxRetries - 1))

\* C25: Check terminates when every request is answered: a probe makes at
\* most 3 attempts, with one sleep before each attempt after the first, and
\* a call that is probing leads to its return
C25_Terminates ==
  /\ [](Probing => /\ attempt < maxRetries
                   /\ Len(sleeps) <= attempt
                   /\ Len(sleeps) < maxRetries)
  /\ (Probing ~> pc = "done")

\* the third attempt of a probe is waiting for its answer
C25_Witness == pc = "wait" /\ attempt = maxRetries - 1 /\ Len(sleeps) = 2

\* a step in which the page of an anchored URL was fetched and its markup
\* could not be parsed
ParseFailed ==
  /\ Answered
  /\ hasAnchor
  /\ resp'.err = "nil"
  /\ resp'.StatusCode >= 200 /\ resp'.StatusCode < 400
  /\ resp'.Body.readErr

\* C26: a markup-parse failure fails the attempt: while attempts remain the
\* probe goes on to another attempt, which fetches the page again, with the
\* parse error as its last error; on the last attempt the candidate is
\* recorded with Exists = false, AnchorExists = false and the parse error,
\* and the check goes on to the next candidate or concludes
C26_ParseFailureRetried ==
  /\ [][ParseFailed =>
         IF attempt + 1 < maxRetries
         THEN /\ NextAttempt
              /\ lastErr' = "failed to parse HTML"
              /\ inflight' = NoRequest
         ELSE /\ ProbeReturns
              /\ Recorded.Version = versionsToCheck[idx]
              /\ ~Recorded.Exists /\ ~Recorded.AnchorExists
              /\ Recorded.HasAnchor
              /\ Recorded.Error = "failed to parse HTML"
              /\ Len(result'.NewerVersions) = Len(result.NewerVersions)
              /\ IF idx < Len(versionsToCheck)
                 THEN /\ pc' = "send"
                      /\ urlString' = BuildURL(docURL, versionsToCheck[idx + 1])
                      /\ attempt' = 0
                 ELSE pc' = "done" /\ ret'.err = "nil"]_vars
  /\ [][(pc = "sleep" /\ pc' # "sleep") =>
          (pc' = "send" /\ attempt' = attempt /\ baseURL' = baseURL)]_vars
  /\ [][(pc = "send" /\ pc' # "send" /\ hasAnchor) =>
          inflight' = [Method |-> "GET", URL |-> baseURL]]_vars

\* a candidate was recorded with the parse error and the next candidate is
\* being probed
C26_Witness ==
  /\ pc = "wait"
  /\ idx = 2
  /\ result.AllResults[1].Error = "failed to parse HTML"
  /\ ~result.AllResults[1].Exists

\* (major, minor) pairs with a minor in 0..99, and their true order
MinorRange == 0..99
PairsInRange == (0..MaxMajor) \X MinorRange
PairLess(a, b) == a[1] < b[1] \/ (a[1] = b[1] /\ a[2] < b[2])
InRange(v) == HasKey(v) /\ Pair(v)[2] \in MinorRange
AllInRange(vs) == \A i \in 1..Len(vs) : HasKey(vs[i]) => InRange(vs[i])
TrulyNewer(known, current) ==
  SelectSeq(known, LAMBDA v : HasKey(v) /\ PairLess(Pair(current), Pair(v)))

Unparsable == {"", "abc", "4", "4.", ".5", "4,17", "99999999999999999999.1"}

\* C28: for a current version that does not parse as major.minor
\* getNewerVersions returns the empty sequence whatever the known list is
\* (looked at whenever the Checker is idle), and a Check of a URL with such
\* a version sends no request and reports IsOutdated = FALSE, LatestVersion =
\* OriginalVersion and no results, without an error
C28_UnparsableCurrent ==
  /\ pc = "idle" =>
       \A v \in Unparsable :
         /\ parseVersionInPlace(v).err # "nil"
         /\ getNewerVersions(v, knownVersions) = <<>>
  /\ (pc = "done" /\ docURL # NoDoc /\ ~HasKey(docURL.Version))
       => /\ Succeeded
          /\ versionsToCheck = <<>>
          /\ ~sent
          /\ ~Report.IsOutdated
          /\ Report.LatestVersion = docURL.Version
          /\ Report.OriginalVersion = docURL.Version
          /\ Report.AllResults = <<>>
          /\ Report.NewerVersions = <<>>

\* Check of a URL whose version does not fit an int has returned while the
\* known list holds a version that parses
C28_Witness ==
  /\ Succeeded
  /\ rawURL = UrlHuge
  /\ ~HasKey(docURL.Version)
  /\ \E i \in 1..Len(knownVersions) : HasKey(knownVersions[i])

\* the flags of one recorded result fit together
Coherent(r) ==
  /\ r.Error # "nil" => (~r.Exists /\ ~r.AnchorExists)
  /\ r.AnchorExists => (r.HasAnchor /\ r.Exists)
  /\ ~r.HasAnchor => ~r.AnchorExists

\* C29: every result recorded from a probe, while Check runs and in the
\* report it returns, satisfies: an error implies Exists = false and
\* AnchorExists = false; AnchorExists implies HasAnchor and Exists; no anchor
\* implies AnchorExists = false
C29_CoherentResults ==
  /\ \A i \in 1..Len(result.AllResults) : Coherent(result.AllResults[i])
  /\ \A i \in 1..Len(result.NewerVersions) : Coherent(result.NewerVersions[i])
  /\ Succeeded =>
       /\ \A i \in 1..Len(Report.AllResults) : Coherent(Report.AllResults[i])
       /\ \A i \in 1..Len(Report.NewerVersions) :
            Coherent(Report.NewerVersions[i])

\* a report holds a result with an error, a result with its anchor found
\* and a result of a page that is missing
C29_Witness ==
  /\ Succeeded
  /\ Len(Report.AllResults) = 3
  /\ Report.AllResults[1].Error # "nil"
  /\ Report.AllResults[2].AnchorExists
  /\ ~Report.AllResults[3].Exists /\ Report.AllResults[3].Error = "nil"

\* C30: every request of a Check goes to BuildURL(docURL, v) cut before its
\* fragment, for the candidate v at hand, which is an entry of the known
\* list with a key above the key of the original version; it never goes to
\* the original URL or to the URL rebuilt at the original version, and a
\* Check that has sent nothing has not looked at the original page either
C30_OnlyNewerRequested ==
  /\ inflight # NoRequest =>
       /\ idx \in 1..Len(versionsToCheck)
       /\ \E i \in 1..Len(knownVersions) : knownVersions[i] = versionsToCheck[idx]
       /\ HasKey(versionsToCheck[idx])
       /\ KeyOf(versionsToCheck[idx]) > KeyOf(docURL.Version)
       /\ versionsToCheck[idx] # docURL.Version
       /\ inflight.URL = BaseOf(BuildURL(docURL, versionsToCheck[idx]))
       /\ inflight.URL # rawURL
       /\ inflight.URL # BaseOf(rawURL)
       /\ inflight.URL # BaseOf(BuildURL(docURL, docURL.Version))
  /\ (Succeeded /\ ~sent) => (~Report.IsOutdated /\ Report.AllResults = <<>>)

\* a request for a candidate is in flight while the original URL is exactly
\* what BuildURL gives at the original version
C30_Witness ==
  /\ pc = "wait"
  /\ inflight.Method = "HEAD"
  /\ rawURL = BuildURL(docURL, docURL.Version)
  /\ idx = 2

\* the report of a call that runs alone on candidates fixed at its start
SoloOn(u, doc, newer, log) ==
  SoloLoop(doc, newer, 1,
           [NoResult EXCEPT !.OriginalURL = u, !.OriginalVersion = doc.Version],
           log)

\* C31: only SetVersions changes the known list of the Checker, and it
\* leaves the locals of a running Check alone; a Check takes its candidates
\* from the known list as it is when the call starts and leaves the list as
\* it is; from then on the candidates stay what they are until the caller
\* has the report, which is the report of a call that ran alone on these
\* candidates
C31_CandidatesFixed ==
  /\ [][knownVersions' # knownVersions => Local' = Local]_vars
  /\ [][(pc = "idle" /\ pc' # "idle" /\ docURL' # NoDoc) =>
          /\ knownVersions' = knownVersions
          /\ versionsToCheck' = getNewerVersions(docURL'.Version, knownVersions)]_vars
  /\ [][(pc # "idle" /\ pc' # "idle") =>
          /\ versionsToCheck' = versionsToCheck
          /\ docURL' = docURL
          /\ rawURL' = rawURL]_vars
  /\ [](Probing =>
          Versions(result.AllResults) = SubSeq(versionsToCheck, 1, idx - 1))
  /\ []((pc = "done" /\ ret.err = "nil") =>
          /\ ret.report[1] = SoloOn(rawURL, docURL, versionsToCheck, heard)
          /\ Versions(ret.report[1].AllResults) = versionsToCheck)

\* the second candidate is being probed after the known list was emptied
C31_Witness ==
  /\ pc = "wait"
  /\ idx = 2
  /\ Len(versionsToCheck) = 2
  /\ Len(result.AllResults) = 1
  /\ knownVersions = <<>>

\* the rearrangements of a sequence
Rearrangements(seq) ==
  { [i \in 1..Len(seq) |-> seq[f[i]]] :
      f \in { g \in [1..Len(seq) -> 1..Len(seq)] :
                \A i \in 1..Len(seq) : \E j \in 1..Len(seq) : g[j] = i } }

\* the entries of a sequence are well-formed versions, no two the same
DistinctWellFormed(seq) ==
  /\ \A i \in 1..Len(seq) : WellFormed(seq[i])
  /\ \A i \in 1..Len(seq) : \A j \in 1..Len(seq) : seq[i] = seq[j] => i = j

\* C32: for a known list of distinct well-formed versions (a list handed
\* to SetVersions), every rearrangement of the list gives getNewerVersions
\* the same result as the list itself, which is the sequence of candidates
\* of the Check
C32_OrderIndependent ==
  (/\ JustEnumerated
   /\ Len(knownVersions) <= MaxKnown
   /\ DistinctWellFormed(knownVersions))
    => \A p \in Rearrangements(knownVersions) :
         /\ getNewerVersions(docURL.Version, p) = versionsToCheck
         /\ getNewerVersions(docURL.Version, p)
              = getNewerVersions(docURL.Version, knownVersions)

\* C33: in every report LatestVersion is not older than OriginalVersion by
\* (major, minor); when IsOutdated is true it is strictly newer than
\* OriginalVersion and no version in NewerVersions is newer than it by
\* major, then minor
C33_LatestIsNewest ==
  Succeeded =>
    /\ \/ Report.LatestVersion = Report.OriginalVersion
       \/ PairLeq(Pair(Report.OriginalVersion), Pair(Report.LatestVersion))
    /\ Report.IsOutdated =>
         /\ PairLess(Pair(Report.OriginalVersion), Pair(Report.LatestVersion))
         /\ \E i \in 1..Len(Report.NewerVersions) :
              Report.NewerVersions[i].Version = Report.LatestVersion
         /\ \A i \in 1..Len(Report.NewerVersions) :
              PairLeq(Pair(Report.NewerVersions[i].Version),
                      Pair(Report.LatestVersion))

====
